---- MODULE Spec2Model ----
(***************************************************************************)
(* dnsmasq-parse (src/parse-dns.go): one run reads a dnsmasq log, folds    *)
(* every "query[...] <domain>" line into a per-domain first/last-seen      *)
(* record, merges the records into a SQLite table in one transaction and   *)
(* exports the table.                                                      *)
(*                                                                         *)
(* Strings are sequences of one-character strings.  Epoch time is counted  *)
(* in minutes: time.Parse of a layout without a year yields year 0, whose  *)
(* epoch second count (-62167219200) does not fit TLC's 32-bit integers.   *)
(* The code only compares timestamps with each other and with 0, which     *)
(* the unit does not change.                                               *)
(***************************************************************************)
EXTENDS Integers, Sequences, FiniteSets, TLC

VARIABLES
    pc,              \* position of main
    status,          \* which message main printed last ("" before any)
    runs,            \* number of processes started so far
    line,            \* scanner.Text() of the line read last
    linesProcessed,  \* main's counter, line 38
    domainTimesMap,  \* main's map, line 39
    tableExists,     \* the domains table has been created in the database file
    store,           \* committed rows of the domains table
    txRows,          \* rows as seen inside the open transaction
    pending,         \* keys of domainTimesMap the range loop has not reached
    exported,        \* rows read by the last export
    seen,            \* history: timestamps folded per key in this run
    zeroSeen,        \* history: keys for which timestamp 0 was ever observed
    aggA, aggB,      \* aggregates of the logs A and B (batching lanes)
    storeAB, storeBA,\* stores of the lanes "A then B" and "B then A"
    input,           \* the lines the log file may hold
    offset,          \* read offset of the log file
    scanned,         \* history: lines scanner.Scan() has returned in this run
    defers,          \* main's deferred calls, the one registered last first
    exitCode,        \* exit status of the process (-1 while it runs)
    attempts,        \* history: how often each stage was begun in this run
    storeAtStart,    \* history: the committed rows when the run began
    monPc,           \* position of the progress goroutine
    tick,            \* a tick waits in ticker.C
    tickerOn,        \* the ticker has been started and not stopped
    done,            \* the done channel is closed
    stopCalls,       \* history: calls of the stop function in this run
    lastOut,         \* what the process wrote last to stderr
    sample,          \* lines and pos as the goroutine read them last
    text, flipped, back, \* a string, its reversal and the reversal of that
    other, otherFlipped, \* a second string and its reversal
    normalized       \* how many of the two reversals have been made

vars == <<pc, status, runs, line, linesProcessed, domainTimesMap, tableExists,
          store, txRows, pending, exported, seen, zeroSeen,
          aggA, aggB, storeAB, storeBA,
          input, offset, scanned, defers, exitCode, attempts, storeAtStart,
          monPc, tick, tickerOn, done, stopCalls, lastOut, sample,
          text, flipped, back, other, otherFlipped, normalized>>

laneVars == <<aggA, aggB, storeAB, storeBA>>

monVars == <<monPc, tick, tickerOn, done, stopCalls, lastOut, sample>>

textVars == <<text, flipped, back, other, otherFlipped, normalized>>

----------------------------------------------------------------------------
(* Bounds *)

MaxLines == 2   \* lines scanned per run
MaxRuns == 2    \* runs of the program over the same database file
MaxStamp == 1   \* largest minute-of-year a log line's time field names
MaxObs == 3     \* lines of the logs A and B together (batching lanes)
MaxLen == 4     \* characters of a string given to reverseDomainParts

(* Program constants *)

StampWidth == 15

----------------------------------------------------------------------------
(* Strings *)

EmptyString == << >>

Dot == "."

HasPrefix(s, prefix) ==
    /\ Len(s) >= Len(prefix)
    /\ SubSeq(s, 1, Len(prefix)) = prefix

RECURSIVE Split(_, _)
Split(s, sep) ==
    IF \A i \in 1..Len(s) : s[i] # sep
    THEN << s >>
    ELSE LET i == CHOOSE j \in 1..Len(s) :
                      s[j] = sep /\ \A k \in 1..(j - 1) : s[k] # sep
         IN  << SubSeq(s, 1, i - 1) >> \o Split(SubSeq(s, i + 1, Len(s)), sep)

RECURSIVE Join(_, _)
Join(parts, sep) ==
    IF Len(parts) = 0 THEN EmptyString
    ELSE IF Len(parts) = 1 THEN parts[1]
    ELSE parts[1] \o << sep >> \o Join(Tail(parts), sep)

\* The parts move one place to the left instead of being swapped end for end.
RotateParts(parts) ==
    [i \in 1..Len(parts) |-> parts[(i % Len(parts)) + 1]]

SwapEnds(parts) == [i \in 1..Len(parts) |-> parts[Len(parts) + 1 - i]]

reverseDomainParts(domain) == Join(SwapEnds(Split(domain, Dot)), Dot)

----------------------------------------------------------------------------
(* Time *)

\* Days from 1970-01-01 to January 1 of year y (proleptic Gregorian, y >= 0).
DaysBeforeYear(y) ==
    365 * y + ((y + 3) \div 4) - ((y + 99) \div 100) + ((y + 399) \div 400)
    - 719528

\* The 15-character time field of a line: whether it matches the layout, and
\* the minute of the year it names.
BadStamp == [valid |-> FALSE, minute |-> 0]

Stamps == { [valid |-> TRUE, minute |-> m] : m \in 0..MaxStamp }

\* time.Parse("Jan _2 15:04:05", field): the layout has no year, so the year
\* of the result is 0; a field that does not match the layout is an error.
ParseTime(field) ==
    IF ~ field.valid
    THEN [err |-> TRUE, year |-> 0, minute |-> 0]
    ELSE [err |-> FALSE, year |-> 0, minute |-> field.minute]

Unix(t) == DaysBeforeYear(t.year) * 1440 + t.minute

----------------------------------------------------------------------------
(* Log lines *)

QueryPrefix == << "q", "u", "e", "r", "y", "[" >>

QueryA == QueryPrefix \o << "A", "]" >>

Noise == << "q", "u", "e", "r", "y" >>

DomainAB == << "a", ".", "b" >>

DomainBA == << "b", ".", "a" >>

FieldSeqs ==
    { << Noise >>,
      << QueryA >>,
      << Noise, DomainAB >>,
      << QueryA, DomainAB >>,
      << Noise, QueryA, DomainBA, Noise >> }

RECURSIVE TextLen(_)
TextLen(fields) ==
    IF fields = << >> THEN 0 ELSE 1 + Len(Head(fields)) + TextLen(Tail(fields))

\* A line: its length, its first 15 characters as time.Parse reads them, and
\* the whitespace-delimited fields of what follows them.
FullLines ==
    { [len |-> StampWidth + TextLen(f), stamp |-> s, fields |-> f] :
        s \in Stamps \cup {BadStamp}, f \in FieldSeqs }

ShortLines ==
    { [len |-> n, stamp |-> BadStamp, fields |-> << >>] :
        n \in {0, StampWidth - 1} }

Lines == FullLines \cup ShortLines

\* The log of the runs of main: a line too short for a time field, lines
\* without a query marker and lines with one, with a good or a bad time field.
MainLines ==
    { l \in Lines :
        \/ l.len = StampWidth - 1
        \/ l.fields \in { << Noise, DomainAB >>,
                          << QueryA, DomainAB >>,
                          << Noise, QueryA, DomainBA, Noise >> } }

NoLine == [len |-> 0, stamp |-> BadStamp, fields |-> << >>]

NoMatch == [domain |-> EmptyString, timestamp |-> 0]

\* The loop keeps going after a marker and returns at the last one.
LastMarker(parts) ==
    { i \in 1..Len(parts) :
        /\ HasPrefix(parts[i], QueryPrefix) /\ i + 1 <= Len(parts)
        /\ \A j \in (i + 1)..Len(parts) :
              ~ (HasPrefix(parts[j], QueryPrefix) /\ j + 1 <= Len(parts)) }

FirstMarker(parts) ==
    { i \in 1..Len(parts) :
        /\ HasPrefix(parts[i], QueryPrefix) /\ i + 1 <= Len(parts)
        /\ \A j \in 1..(i - 1) :
              ~ (HasPrefix(parts[j], QueryPrefix) /\ j + 1 <= Len(parts)) }

\* The parse error is dropped and the zero time used.
extractIgnoringParseError(l) ==
    IF l.len < StampWidth THEN NoMatch
    ELSE LET parts == l.fields
         IN  IF FirstMarker(parts) = {} THEN NoMatch
             ELSE LET i == CHOOSE j \in FirstMarker(parts) : TRUE
                  IN  [domain |-> parts[i + 1],
                       timestamp |-> Unix(ParseTime(l.stamp))]

extractDomainAndTimestamp(l) ==
    IF l.len < StampWidth THEN NoMatch
    ELSE LET timestamp == ParseTime(l.stamp)
             parts == l.fields
         IN  IF timestamp.err THEN NoMatch
             ELSE IF FirstMarker(parts) = {} THEN NoMatch
             ELSE LET i == CHOOSE j \in FirstMarker(parts) : TRUE
                  IN  [domain |-> parts[i + 1], timestamp |-> Unix(timestamp)]

----------------------------------------------------------------------------
(* Aggregator: the body of the scan loop *)

ZeroTimes == [FirstSeen |-> 0, LastSeen |-> 0]

EmptyMap == [k \in {} |-> ZeroTimes]

\* m[key] of a Go map: the zero value when the key is absent.
Lookup(m, key) == IF key \in DOMAIN m THEN m[key] ELSE ZeroTimes

\* The update of LastSeen is left out.
FoldFirstSeenOnly(current, timestamp) ==
    [FirstSeen |-> IF current.FirstSeen = 0 \/ timestamp < current.FirstSeen
                   THEN timestamp ELSE current.FirstSeen,
     LastSeen |-> current.LastSeen]

FoldTimes(current, timestamp) ==
    LET first == IF current.FirstSeen = 0 \/ timestamp < current.FirstSeen
                 THEN timestamp ELSE current.FirstSeen
        last  == IF timestamp > current.LastSeen
                 THEN timestamp ELSE current.LastSeen
    IN  [FirstSeen |-> first, LastSeen |-> last]

Observe(m, key, timestamp) ==
    [k \in DOMAIN m \cup {key} |->
        IF k = key THEN FoldTimes(Lookup(m, key), timestamp) ELSE m[k]]

----------------------------------------------------------------------------
(* The domains table: its rows in rowid order *)

SqlMin(a, b) == IF a < b THEN a ELSE b

SqlMax(a, b) == IF a > b THEN a ELSE b

Row(domain, first, last) ==
    [domain |-> domain, first_seen |-> first, last_seen |-> last]

RowsOf(rows) == { rows[i] : i \in 1..Len(rows) }

KeysOf(rows) == { rows[i].domain : i \in 1..Len(rows) }

RowFor(rows, domain) == CHOOSE r \in RowsOf(rows) : r.domain = domain

\* DROP TABLE, then CREATE TABLE.
DropAndCreateTable(rows, exists) == << >>

\* CREATE TABLE IF NOT EXISTS domains (...)
CreateTableIfNotExists(rows, exists) == IF exists THEN rows ELSE << >>

\* INSERT without the ON CONFLICT clause, into a table without UNIQUE.
InsertRow(rows, domain, first, last) == Append(rows, Row(domain, first, last))

\* ON CONFLICT(domain) DO UPDATE SET first_seen = excluded.first_seen,
\* last_seen = excluded.last_seen
UpsertReplace(rows, domain, first, last) ==
    IF domain \in KeysOf(rows)
    THEN [i \in 1..Len(rows) |->
            IF rows[i].domain = domain THEN Row(domain, first, last) ELSE rows[i]]
    ELSE Append(rows, Row(domain, first, last))

\* INSERT ... VALUES (?, ?, ?) ON CONFLICT(domain) DO UPDATE SET
\*   first_seen = MIN(first_seen, excluded.first_seen),
\*   last_seen = MAX(last_seen, excluded.last_seen)
Upsert(rows, domain, first, last) ==
    IF domain \in KeysOf(rows)
    THEN [i \in 1..Len(rows) |->
            IF rows[i].domain = domain
            THEN Row(domain, SqlMin(rows[i].first_seen, first),
                             SqlMax(rows[i].last_seen, last))
            ELSE rows[i]]
    ELSE Append(rows, Row(domain, first, last))

\* The statement runs on the connection, outside the transaction.
ExecAutoCommit(committed, working) == working

\* Rows visible outside the transaction after a statement ran inside it.
ExecInTx(committed, working) == committed

\* saveDomainsToDatabase when nothing fails: every record is upserted, in
\* the order the range loop happens to visit the map, and committed.
RECURSIVE MergeAggregate(_, _, _)
MergeAggregate(rows, m, todo) ==
    IF todo = {} THEN rows
    ELSE LET k == CHOOSE x \in todo : TRUE
         IN  MergeAggregate(Upsert(rows, k, m[k].FirstSeen, m[k].LastSeen),
                            m, todo \ {k})

----------------------------------------------------------------------------
(* One run of main, and the next run over the same database file *)

NoSeen == [k \in {} |-> {}]

Stages == {"open", "init", "scan", "save", "export"}

NoAttempts == [s \in Stages |-> 0]

Attempt(a, stage) == [a EXCEPT ![stage] = @ + 1]

NoSample == [lines |-> 0, pos |-> 0]

\* A Go program whose main returns ends with status 0.
ExitStatusOfReturn == 0

\* The call is not deferred.
NoDefer(stack, f) == stack

\* defer f(): deferred calls run last-in first-out when main returns.
PushDefer(stack, f) == << f >> \o stack

\* bufio.NewScanner (line 36) reads the file a buffer at a time.
ReadChunk == 4096

\* The file offset after scanner.Scan() has returned a line: with an empty
\* buffer it has read a chunk, otherwise it may have served the line from
\* the buffer.
ReadAhead(pos) ==
    IF pos = 0 THEN {ReadChunk} ELSE {pos, pos + ReadChunk}

\* The check of scanner.Err() is missing: a scan error goes on to the save.
AfterStageIgnoringScanError(stage, failed) ==
    IF failed /\ stage # "scan" THEN "return"
    ELSE CASE stage = "open" -> "init"
           [] stage = "init" -> "scan"
           [] stage = "scan" -> "saveOpen"
           [] stage = "save" -> "export"
           [] stage = "export" -> "return"

\* Where main goes after a stage: every error branch is a return.
AfterStage(stage, failed) ==
    IF failed THEN "return"
    ELSE CASE stage = "open" -> "init"
           [] stage = "init" -> "scan"
           [] stage = "scan" -> "saveOpen"
           [] stage = "save" -> "export"
           [] stage = "export" -> "return"

\* What every specification starts from, apart from pc, the log and the
\* table.
InitLocals ==
    /\ status = ""
    /\ runs = 1
    /\ line = NoLine
    /\ linesProcessed = 0
    /\ domainTimesMap = EmptyMap
    /\ store = << >>
    /\ txRows = << >>
    /\ pending = {}
    /\ exported = << >>
    /\ seen = NoSeen
    /\ zeroSeen = {}
    /\ aggA = EmptyMap
    /\ aggB = EmptyMap
    /\ storeAB = << >>
    /\ storeBA = << >>
    /\ offset = 0
    /\ scanned = 0
    /\ defers = << >>
    /\ exitCode = -1
    /\ attempts = NoAttempts
    /\ storeAtStart = << >>
    /\ monPc = "none"
    /\ tick = FALSE
    /\ tickerOn = FALSE
    /\ done = FALSE
    /\ stopCalls = 0
    /\ lastOut = ""
    /\ sample = NoSample
    /\ flipped = EmptyString
    /\ back = EmptyString
    /\ otherFlipped = EmptyString
    /\ normalized = 0

Init ==
    /\ pc = "open"
    /\ input = MainLines
    /\ tableExists = FALSE
    /\ text = EmptyString
    /\ other = EmptyString
    /\ InitLocals

\* main prints `message` and returns from the error branch of `stage`.
Exit(stage, message) ==
    /\ pc' = AfterStage(stage, TRUE)
    /\ status' = message

\* A new process over the same database file; every local starts fresh.
StartRun ==
    /\ pc = "exit"
    /\ runs < MaxRuns
    /\ runs' = runs + 1
    /\ pc' = "open"
    /\ status' = ""
    /\ line' = NoLine
    /\ linesProcessed' = 0
    /\ domainTimesMap' = EmptyMap
    /\ txRows' = << >>
    /\ pending' = {}
    /\ seen' = NoSeen
    /\ offset' = 0
    /\ scanned' = 0
    /\ defers' = << >>
    /\ exitCode' = -1
    /\ attempts' = NoAttempts
    /\ storeAtStart' = store
    /\ monPc' = "none"
    /\ tick' = FALSE
    /\ tickerOn' = FALSE
    /\ done' = FALSE
    /\ stopCalls' = 0
    /\ lastOut' = ""
    /\ sample' = NoSample
    /\ UNCHANGED <<input, tableExists, store, exported, zeroSeen>>
    /\ UNCHANGED laneVars
    /\ UNCHANGED textVars

\* Lines 23-28.
OpenInput ==
    /\ pc = "open"
    /\ attempts' = Attempt(attempts, "open")
    /\ \/ /\ pc' = AfterStage("open", FALSE)
          /\ status' = status
          /\ defers' = PushDefer(defers, "file.Close")
       \/ /\ Exit("open", "Error")
          /\ UNCHANGED defers
    /\ UNCHANGED <<runs, line, linesProcessed, domainTimesMap, tableExists,
                   store, txRows, pending, exported, seen, zeroSeen>>
    /\ UNCHANGED <<input, offset, scanned, exitCode, storeAtStart>>
    /\ UNCHANGED monVars
    /\ UNCHANGED laneVars
    /\ UNCHANGED textVars

\* Lines 30-41: initDatabase, then the scanner, the counter, the map and the
\* progress indicator (lines 85-116: the ticker and the goroutine start, and
\* stopProgress is deferred).
InitDatabase ==
    /\ pc = "init"
    /\ \/ /\ store' = CreateTableIfNotExists(store, tableExists)
          /\ tableExists' = TRUE
          /\ pc' = AfterStage("init", FALSE)
          /\ status' = status
          /\ attempts' = Attempt(Attempt(attempts, "init"), "scan")
          /\ monPc' = "select"
          /\ tickerOn' = TRUE
          /\ defers' = PushDefer(defers, "stopProgress")
       \/ /\ Exit("init", "Error initializing database")
          /\ attempts' = Attempt(attempts, "init")
          /\ UNCHANGED <<store, tableExists, monPc, tickerOn, defers>>
    /\ UNCHANGED <<runs, line, linesProcessed, domainTimesMap, txRows, pending,
                   exported, seen, zeroSeen>>
    /\ UNCHANGED <<input, offset, scanned, exitCode, storeAtStart>>
    /\ UNCHANGED <<tick, done, stopCalls, lastOut, sample>>
    /\ UNCHANGED laneVars
    /\ UNCHANGED textVars

\* Lines 43-59: one iteration of the scan loop.
ScanLine ==
    /\ pc = "scan"
    /\ scanned < MaxLines
    /\ \E l \in input :
          LET found == extractDomainAndTimestamp(l)
              reversed == reverseDomainParts(found.domain)
          IN  /\ line' = l
              /\ offset' \in ReadAhead(offset)
              /\ scanned' = scanned + 1
              /\ linesProcessed' = linesProcessed + 1
              /\ IF found.domain # EmptyString
                 THEN /\ domainTimesMap' =
                            Observe(domainTimesMap, reversed, found.timestamp)
                      /\ seen' = [k \in DOMAIN seen \cup {reversed} |->
                                    IF k = reversed
                                    THEN (IF k \in DOMAIN seen THEN seen[k] ELSE {})
                                         \cup {found.timestamp}
                                    ELSE seen[k]]
                      /\ zeroSeen' = IF found.timestamp = 0
                                     THEN zeroSeen \cup {reversed} ELSE zeroSeen
                 ELSE UNCHANGED <<domainTimesMap, seen, zeroSeen>>
    /\ UNCHANGED <<pc, status, runs, tableExists, store, txRows, pending, exported>>
    /\ UNCHANGED <<input, defers, exitCode, attempts, storeAtStart>>
    /\ UNCHANGED monVars
    /\ UNCHANGED laneVars
    /\ UNCHANGED textVars

\* Lines 43, 61-64: scanner.Scan() returns false, at the end of the file or
\* on a read error; the loop's variable line goes out of scope.
ScanEnd ==
    /\ pc = "scan"
    /\ \/ /\ pc' = AfterStage("scan", FALSE)
          /\ status' = status
       \/ Exit("scan", "Error scanning")
    /\ line' = NoLine
    /\ UNCHANGED <<runs, linesProcessed, domainTimesMap, tableExists,
                   store, txRows, pending, exported, seen, zeroSeen>>
    /\ UNCHANGED <<input, offset, scanned, defers, exitCode, attempts,
                   storeAtStart>>
    /\ UNCHANGED monVars
    /\ UNCHANGED laneVars
    /\ UNCHANGED textVars

\* Lines 66, 189-193.
SaveOpen ==
    /\ pc = "saveOpen"
    /\ attempts' = Attempt(attempts, "save")
    /\ \/ /\ pc' = "saveBegin"
          /\ status' = status
       \/ Exit("save", "Error saving domains to database")
    /\ UNCHANGED <<runs, line, linesProcessed, domainTimesMap, tableExists,
                   store, txRows, pending, exported, seen, zeroSeen>>
    /\ UNCHANGED <<input, offset, scanned, defers, exitCode, storeAtStart>>
    /\ UNCHANGED monVars
    /\ UNCHANGED laneVars
    /\ UNCHANGED textVars

\* Lines 195-198.
SaveBegin ==
    /\ pc = "saveBegin"
    /\ \/ /\ pc' = "savePrepare"
          /\ status' = status
          /\ txRows' = store
       \/ /\ Exit("save", "Error saving domains to database")
          /\ UNCHANGED txRows
    /\ UNCHANGED <<runs, line, linesProcessed, domainTimesMap, tableExists,
                   store, pending, exported, seen, zeroSeen>>
    /\ UNCHANGED <<input, offset, scanned, defers, exitCode, attempts,
                   storeAtStart>>
    /\ UNCHANGED monVars
    /\ UNCHANGED laneVars
    /\ UNCHANGED textVars

\* Lines 200-211; a failure rolls the transaction back.
SavePrepare ==
    /\ pc = "savePrepare"
    /\ \/ /\ pc' = "saveExec"
          /\ status' = status
          /\ pending' = DOMAIN domainTimesMap
          /\ UNCHANGED txRows
       \/ /\ Exit("save", "Error saving domains to database")
          /\ txRows' = << >>
          /\ UNCHANGED pending
    /\ UNCHANGED <<runs, line, linesProcessed, domainTimesMap, tableExists,
                   store, exported, seen, zeroSeen>>
    /\ UNCHANGED <<input, offset, scanned, defers, exitCode, attempts,
                   storeAtStart>>
    /\ UNCHANGED monVars
    /\ UNCHANGED laneVars
    /\ UNCHANGED textVars

\* Lines 213-218: one iteration of the range loop, in any order of the keys;
\* a failure rolls the transaction back.
SaveExec ==
    /\ pc = "saveExec"
    /\ \E domain \in pending :
          LET times == domainTimesMap[domain]
              executed == Upsert(txRows, domain, times.FirstSeen, times.LastSeen)
          IN  \/ /\ txRows' = executed
                 /\ store' = ExecInTx(store, executed)
                 /\ pending' = pending \ {domain}
                 /\ UNCHANGED <<pc, status>>
              \/ /\ Exit("save", "Error saving domains to database")
                 /\ txRows' = << >>
                 /\ UNCHANGED <<store, pending>>
    /\ UNCHANGED <<runs, line, linesProcessed, domainTimesMap, tableExists,
                   exported, seen, zeroSeen>>
    /\ UNCHANGED <<input, offset, scanned, defers, exitCode, attempts,
                   storeAtStart>>
    /\ UNCHANGED monVars
    /\ UNCHANGED laneVars
    /\ UNCHANGED textVars

\* Lines 220-224: the commit publishes the transaction's rows; when it fails
\* the deferred db.Close() drops the connection and with it the transaction.
SaveCommit ==
    /\ pc = "saveExec"
    /\ pending = {}
    /\ \/ /\ store' = txRows
          /\ pc' = AfterStage("save", FALSE)
          /\ status' = status
       \/ /\ Exit("save", "Error saving domains to database")
          /\ UNCHANGED store
    /\ txRows' = << >>
    /\ UNCHANGED <<runs, line, linesProcessed, domainTimesMap, tableExists,
                   pending, exported, seen, zeroSeen>>
    /\ UNCHANGED <<input, offset, scanned, defers, exitCode, attempts,
                   storeAtStart>>
    /\ UNCHANGED monVars
    /\ UNCHANGED laneVars
    /\ UNCHANGED textVars

\* Lines 71-78: sortAndExportDatabase reads the table and writes the files.
Export ==
    /\ pc = "export"
    /\ attempts' = Attempt(attempts, "export")
    /\ \/ /\ exported' = store
          /\ pc' = AfterStage("export", FALSE)
          /\ status' = "Process completed successfully."
       \/ /\ Exit("export", "Error sorting and exporting database")
          /\ UNCHANGED exported
    /\ UNCHANGED <<runs, line, linesProcessed, domainTimesMap, tableExists,
                   store, txRows, pending, seen, zeroSeen>>
    /\ UNCHANGED <<input, offset, scanned, defers, exitCode, storeAtStart>>
    /\ UNCHANGED monVars
    /\ UNCHANGED laneVars
    /\ UNCHANGED textVars

\* main returns: the deferred call registered last runs.  stopProgress
\* (lines 118-123) closes done, stops the ticker and writes a newline to
\* stderr; file.Close (line 28) touches nothing the model holds.
RunDeferred ==
    /\ pc = "return"
    /\ defers # << >>
    /\ defers' = Tail(defers)
    /\ IF Head(defers) = "stopProgress"
       THEN /\ done' = TRUE
            /\ tickerOn' = FALSE
            /\ lastOut' = "newline"
            /\ stopCalls' = stopCalls + 1
       ELSE UNCHANGED <<done, tickerOn, lastOut, stopCalls>>
    /\ UNCHANGED <<pc, status, runs, line, linesProcessed, domainTimesMap,
                   tableExists, store, txRows, pending, exported, seen, zeroSeen>>
    /\ UNCHANGED <<input, offset, scanned, exitCode, attempts, storeAtStart>>
    /\ UNCHANGED <<monPc, tick, sample>>
    /\ UNCHANGED laneVars
    /\ UNCHANGED textVars

\* main has returned and no deferred call is left: the process ends, and
\* its goroutines with it.
ProcessExit ==
    /\ pc = "return"
    /\ defers = << >>
    /\ pc' = "exit"
    /\ exitCode' = ExitStatusOfReturn
    /\ UNCHANGED <<status, runs, line, linesProcessed, domainTimesMap,
                   tableExists, store, txRows, pending, exported, seen, zeroSeen>>
    /\ UNCHANGED <<input, offset, scanned, defers, attempts, storeAtStart>>
    /\ UNCHANGED monVars
    /\ UNCHANGED laneVars
    /\ UNCHANGED textVars

\* Runs shorter than the ticker's period: no tick is delivered, and what
\* the goroutine does when done is closed is seen by nobody.
Next ==
    \/ StartRun
    \/ OpenInput
    \/ InitDatabase
    \/ ScanLine
    \/ ScanEnd
    \/ SaveOpen
    \/ SaveBegin
    \/ SavePrepare
    \/ SaveExec
    \/ SaveCommit
    \/ Export
    \/ RunDeferred
    \/ ProcessExit

Spec == Init /\ [][Next]_vars

----------------------------------------------------------------------------
(* Properties of a run *)

SetMin(S) == CHOOSE x \in S : \A y \in S : x <= y

SetMax(S) == CHOOSE x \in S : \A y \in S : x >= y

SavePcs == {"saveOpen", "saveBegin", "savePrepare", "saveExec"}

InSave == pc \in SavePcs

SaveReturnsNil == InSave /\ pc' = "export"

OneRowPerKey(rows) ==
    \A i, j \in 1..Len(rows) : rows[i].domain = rows[j].domain => i = j

\* C1: after every line folded by the scan loop, each record of the map has
\* firstSeen = the least and lastSeen = the greatest timestamp observed for
\* its key in this run.
C1_AggregateIsMinMax ==
    \A k \in DOMAIN domainTimesMap :
        /\ k \in DOMAIN seen
        /\ domainTimesMap[k].FirstSeen = SetMin(seen[k])
        /\ domainTimesMap[k].LastSeen = SetMax(seen[k])

AllReconciled ==
    \A k \in DOMAIN domainTimesMap :
        /\ k \in KeysOf(store')
        /\ RowFor(store', k).first_seen <= domainTimesMap[k].FirstSeen
        /\ RowFor(store', k).last_seen >= domainTimesMap[k].LastSeen

AllOrNothingStep ==
    (pc' = "export" /\ AllReconciled) \/ (pc' # "export" /\ store' = store)

\* C2: saveDomainsToDatabase is all-or-nothing: while it runs the committed
\* table does not change, except in the step that returns nil, after which
\* the table holds a row covering every record of the map.
C2_MergeAllOrNothing ==
    [][InSave => AllOrNothingStep]_vars

\* A save that failed in the range loop after it had executed a record, and
\* the table shows nothing of that record.
C2_Witness ==
    /\ pc = "exit"
    /\ status = "Error saving domains to database"
    /\ pending # {}
    /\ \E k \in DOMAIN domainTimesMap \ pending : k \notin KeysOf(store)

PerKeyResult ==
    /\ \A k \in DOMAIN domainTimesMap :
          /\ k \in KeysOf(store')
          /\ RowFor(store', k).first_seen =
                IF k \in KeysOf(store)
                THEN SetMin({RowFor(store, k).first_seen,
                             domainTimesMap[k].FirstSeen})
                ELSE domainTimesMap[k].FirstSeen
          /\ RowFor(store', k).last_seen =
                IF k \in KeysOf(store)
                THEN SetMax({RowFor(store, k).last_seen,
                             domainTimesMap[k].LastSeen})
                ELSE domainTimesMap[k].LastSeen
    /\ \A k \in KeysOf(store) \ DOMAIN domainTimesMap :
          k \in KeysOf(store') /\ RowFor(store', k) = RowFor(store, k)
    /\ OneRowPerKey(store')

\* C6: the step in which saveDomainsToDatabase returns nil leaves, for every
\* key of the map, the map's record when the key was not stored and the
\* MIN of the first_seen and MAX of the last_seen values when it was; rows
\* of other keys are as before, and no key has two rows.
C6_MergeResultPerKey ==
    [][SaveReturnsNil => PerKeyResult]_vars

\* A committed merge in which one key was already stored with an earlier
\* first_seen than this run's, and another stored key is not in the map.
C6_Witness ==
    /\ pc = "export"
    /\ runs > 1
    /\ \E k \in DOMAIN domainTimesMap :
          /\ k \in KeysOf(store)
          /\ RowFor(store, k).first_seen < domainTimesMap[k].FirstSeen
    /\ KeysOf(store) \ DOMAIN domainTimesMap # {}

\* C7: a stored first_seen or last_seen is 0 only for a key for which the
\* timestamp 0 was observed.
C7_NoSentinelStored ==
    \A i \in 1..Len(store) :
        (store[i].first_seen = 0 \/ store[i].last_seen = 0)
            => store[i].domain \in zeroSeen

GrowStep ==
    /\ KeysOf(store) \subseteq KeysOf(store')
    /\ \A k \in KeysOf(store) :
          /\ RowFor(store', k).first_seen <= RowFor(store, k).first_seen
          /\ RowFor(store', k).last_seen >= RowFor(store, k).last_seen
    /\ SaveReturnsNil =>
          KeysOf(store') = KeysOf(store) \cup DOMAIN domainTimesMap

\* C9: no step removes a key from the table, raises a stored first_seen or
\* lowers a stored last_seen; the step in which the merge is committed makes
\* the key set the old key set united with the keys of the map.
C9_StoreOnlyGrows ==
    [][GrowStep]_vars

\* A later run that committed a key next to the key of an earlier run.
C9_Witness ==
    /\ runs > 1
    /\ pc = "export"
    /\ KeysOf(store) \ DOMAIN domainTimesMap # {}
    /\ DOMAIN domainTimesMap # {}
    /\ tableExists

Malformed(l) ==
    \/ l.len < StampWidth
    \/ ~ l.stamp.valid
    \/ \A i \in 1..Len(l.fields) : ~ HasPrefix(l.fields[i], QueryPrefix)

ScanStep ==
    /\ pc = "scan"
    /\ scanned' = scanned + 1

SkipStep ==
    /\ extractDomainAndTimestamp(line') = NoMatch
    /\ domainTimesMap' = domainTimesMap
    /\ linesProcessed' = linesProcessed + 1
    /\ pc' = "scan"

\* C10: a line that is too short, whose time field does not parse or that
\* has no query[ token yields no match; the step that reads it leaves the
\* map as it was, adds one to linesProcessed and stays in the scan loop.
C10_MalformedLineSkipped ==
    [][ScanStep /\ Malformed(line') => SkipStep]_vars

\* A line with an unparsable time field and a query[ token followed by a
\* domain, read after a line that matched.
C10_Witness ==
    /\ pc = "scan"
    /\ linesProcessed > 1
    /\ DOMAIN domainTimesMap # {}
    /\ line.len >= StampWidth
    /\ ~ line.stamp.valid
    /\ FirstMarker(line.fields) # {}

----------------------------------------------------------------------------
(* Batching lanes.  The scan loop's fold and the merge are functions of the
   observations, so runs over two logs A and B are compared side by side
   from one database: lane AB runs A then B, lane BA runs B then A, and the
   program's own variables run one log holding the lines of both.  The
   observations are drawn from every sign a timestamp can have. *)

TimeValues == {-1, 0, 1}

LaneKeys == {reverseDomainParts(DomainAB), reverseDomainParts(DomainBA)}

\* A whole run that ends without error: lines 66-69 on the map of the run.
Merge(rows, m) == MergeAggregate(rows, m, DOMAIN m)

progIdle == <<status, line, tableExists, txRows, pending, exported, seen,
              zeroSeen, input, offset, scanned, defers, exitCode, attempts,
              storeAtStart, monPc, tick, tickerOn, done, stopCalls, lastOut,
              sample, text, flipped, back, other, otherFlipped, normalized>>

InitBatch ==
    /\ pc = "prior"
    /\ input = {}
    /\ tableExists = TRUE
    /\ text = EmptyString
    /\ other = EmptyString
    /\ InitLocals

\* An earlier run over a one-line log, the same in every lane.
PriorRun ==
    /\ pc = "prior"
    /\ runs < MaxRuns
    /\ \E key \in LaneKeys, timestamp \in TimeValues :
          LET rows == Merge(store, Observe(EmptyMap, key, timestamp))
          IN  /\ store' = rows
              /\ storeAB' = rows
              /\ storeBA' = rows
    /\ runs' = runs + 1
    /\ UNCHANGED <<pc, linesProcessed, domainTimesMap, aggA, aggB>>
    /\ UNCHANGED progIdle

BeginLogs ==
    /\ pc = "prior"
    /\ pc' = "fold"
    /\ UNCHANGED <<runs, linesProcessed, domainTimesMap, store>>
    /\ UNCHANGED laneVars
    /\ UNCHANGED progIdle

\* The next line of the joint log is a line of log A.
ObserveA ==
    /\ pc = "fold"
    /\ linesProcessed < MaxObs
    /\ \E key \in LaneKeys, timestamp \in TimeValues :
          /\ aggA' = Observe(aggA, key, timestamp)
          /\ domainTimesMap' = Observe(domainTimesMap, key, timestamp)
    /\ linesProcessed' = linesProcessed + 1
    /\ UNCHANGED <<pc, runs, store, aggB, storeAB, storeBA>>
    /\ UNCHANGED progIdle

\* The next line of the joint log is a line of log B.
ObserveB ==
    /\ pc = "fold"
    /\ linesProcessed < MaxObs
    /\ \E key \in LaneKeys, timestamp \in TimeValues :
          /\ aggB' = Observe(aggB, key, timestamp)
          /\ domainTimesMap' = Observe(domainTimesMap, key, timestamp)
    /\ linesProcessed' = linesProcessed + 1
    /\ UNCHANGED <<pc, runs, store, aggA, storeAB, storeBA>>
    /\ UNCHANGED progIdle

\* Each lane's first run is merged; the joint log's only run is merged.
RunFirst ==
    /\ pc = "fold"
    /\ pc' = "second"
    /\ storeAB' = Merge(storeAB, aggA)
    /\ storeBA' = Merge(storeBA, aggB)
    /\ store' = Merge(store, domainTimesMap)
    /\ UNCHANGED <<runs, linesProcessed, domainTimesMap, aggA, aggB>>
    /\ UNCHANGED progIdle

\* Each lane's second run is merged.
RunSecond ==
    /\ pc = "second"
    /\ pc' = "again"
    /\ storeAB' = Merge(storeAB, aggB)
    /\ storeBA' = Merge(storeBA, aggA)
    /\ UNCHANGED <<runs, linesProcessed, domainTimesMap, store, aggA, aggB>>
    /\ UNCHANGED progIdle

\* Every lane repeats its last run over the unchanged log.
RunAgain ==
    /\ pc = "again"
    /\ pc' = "done"
    /\ storeAB' = Merge(storeAB, aggB)
    /\ storeBA' = Merge(storeBA, aggA)
    /\ store' = Merge(store, domainTimesMap)
    /\ UNCHANGED <<runs, linesProcessed, domainTimesMap, aggA, aggB>>
    /\ UNCHANGED progIdle

NextBatch ==
    \/ PriorRun
    \/ BeginLogs
    \/ ObserveA
    \/ ObserveB
    \/ RunFirst
    \/ RunSecond
    \/ RunAgain

SpecBatch == InitBatch /\ [][NextBatch]_vars

----------------------------------------------------------------------------
(* Properties of the lanes *)

BothRunsMerged == pc \in {"again", "done"}

RepeatStep == pc = "again" /\ pc' = "done"

\* C3: merging the aggregate of a run a second time changes no row, so a
\* second run over an unchanged log leaves the table as the first left it.
C3_MergeIdempotent ==
    [][RepeatStep =>
          storeAB' = storeAB /\ storeBA' = storeBA /\ store' = store]_vars

\* The repeated run's aggregate holds a key that was stored before the run
\* with other values, and the table holds a key the aggregate does not.
C3_Witness ==
    /\ pc = "done"
    /\ \E k \in DOMAIN aggB :
          /\ k \in KeysOf(storeAB)
          /\ RowFor(storeAB, k).first_seen < aggB[k].FirstSeen
          /\ RowFor(storeAB, k).last_seen > aggB[k].LastSeen
    /\ KeysOf(storeAB) \ DOMAIN aggB # {}

\* C4: merging A then B leaves the same (first_seen, last_seen) for every
\* key as merging B then A.
C4_MergeCommutes ==
    BothRunsMerged => RowsOf(storeAB) = RowsOf(storeBA)

\* A and B share a key with different records and B has a key A has not.
C4_Witness ==
    /\ pc = "again"
    /\ \E k \in DOMAIN aggA \cap DOMAIN aggB :
          /\ aggA[k].FirstSeen # aggB[k].FirstSeen
          /\ aggA[k].LastSeen # aggB[k].LastSeen
    /\ DOMAIN aggB \ DOMAIN aggA # {}
    /\ Len(storeAB) = 2

AllAggregates == {domainTimesMap, aggA, aggB}

AllStores == {store, storeAB, storeBA}

\* C8: every record of an aggregate and every row of a table built from the
\* empty table has firstSeen <= lastSeen.
C8_FirstNotAfterLast ==
    /\ \A m \in AllAggregates :
          \A k \in DOMAIN m : m[k].FirstSeen <= m[k].LastSeen
    /\ \A rows \in AllStores :
          \A i \in 1..Len(rows) : rows[i].first_seen <= rows[i].last_seen

\* A record folded from a positive timestamp and then a negative one, and a
\* stored row merged from two runs.
C8_Witness ==
    /\ pc = "done"
    /\ \E k \in DOMAIN domainTimesMap :
          /\ domainTimesMap[k].FirstSeen < 0
          /\ domainTimesMap[k].LastSeen > 0
    /\ \E k \in DOMAIN aggA \cap DOMAIN aggB :
          /\ aggA[k].FirstSeen = aggA[k].LastSeen
          /\ aggB[k].FirstSeen < aggA[k].FirstSeen
          /\ RowFor(storeAB, k).first_seen < RowFor(storeAB, k).last_seen

----------------------------------------------------------------------------
(* One run of main next to the ticker and the progress goroutine *)

\* The counter is increased by the load.
LoadAndAdd(counter) == counter + 1

\* atomic.LoadUint64 (line 99): the counter after the load.
LoadUint64(counter) == counter

\* file.Seek(delta, io.SeekCurrent) (line 100): the offset after the call.
SeekCurrent(pos, delta) == pos + delta

\* A short log: a line too short for a time field and matching lines.
MonLines ==
    { l \in MainLines :
        \/ l.len = StampWidth - 1
        \/ l.stamp.valid /\ l.fields = << QueryA, DomainAB >> }

InitMon ==
    /\ pc = "open"
    /\ input = MonLines
    /\ tableExists = FALSE
    /\ text = EmptyString
    /\ other = EmptyString
    /\ InitLocals

monIdle == <<pc, status, runs, line, domainTimesMap, tableExists, store,
             txRows, pending, exported, seen, zeroSeen, input, scanned,
             defers, exitCode, attempts, storeAtStart>>

\* Line 92: the ticker puts a tick into ticker.C, which holds one tick;
\* ticker.Stop() ends that, and leaves a tick that is already there.
Tick ==
    /\ pc # "exit"
    /\ tickerOn
    /\ ~ tick
    /\ tick' = TRUE
    /\ UNCHANGED <<monPc, tickerOn, done, stopCalls, lastOut, sample>>
    /\ UNCHANGED <<linesProcessed, offset>>
    /\ UNCHANGED monIdle
    /\ UNCHANGED laneVars
    /\ UNCHANGED textVars

\* Lines 97-99: select takes the tick (whether or not done is closed too)
\* and the goroutine loads the counter.
MonitorLoad ==
    /\ pc # "exit"
    /\ monPc = "select"
    /\ tick
    /\ tick' = FALSE
    /\ linesProcessed' = LoadUint64(linesProcessed)
    /\ sample' = [sample EXCEPT !.lines = linesProcessed]
    /\ monPc' = "seek"
    /\ UNCHANGED <<tickerOn, done, stopCalls, lastOut>>
    /\ UNCHANGED offset
    /\ UNCHANGED monIdle
    /\ UNCHANGED laneVars
    /\ UNCHANGED textVars

\* Line 100.
MonitorSeek ==
    /\ pc # "exit"
    /\ monPc = "seek"
    /\ offset' = SeekCurrent(offset, 0)
    /\ sample' = [sample EXCEPT !.pos = offset']
    /\ monPc' = "print"
    /\ UNCHANGED <<tick, tickerOn, done, stopCalls, lastOut>>
    /\ UNCHANGED linesProcessed
    /\ UNCHANGED monIdle
    /\ UNCHANGED laneVars
    /\ UNCHANGED textVars

\* Lines 101-111: the progress text, which starts with a carriage return
\* and has no newline.
MonitorPrint ==
    /\ pc # "exit"
    /\ monPc = "print"
    /\ lastOut' = "progress"
    /\ monPc' = "select"
    /\ UNCHANGED <<tick, tickerOn, done, stopCalls, sample>>
    /\ UNCHANGED <<linesProcessed, offset>>
    /\ UNCHANGED monIdle
    /\ UNCHANGED laneVars
    /\ UNCHANGED textVars

\* Lines 112-113: select takes the closed done channel.
MonitorReturn ==
    /\ pc # "exit"
    /\ monPc = "select"
    /\ done
    /\ monPc' = "returned"
    /\ UNCHANGED <<tick, tickerOn, done, stopCalls, lastOut, sample>>
    /\ UNCHANGED <<linesProcessed, offset>>
    /\ UNCHANGED monIdle
    /\ UNCHANGED laneVars
    /\ UNCHANGED textVars

NextMon ==
    \/ OpenInput
    \/ InitDatabase
    \/ ScanLine
    \/ ScanEnd
    \/ SaveOpen
    \/ SaveBegin
    \/ SavePrepare
    \/ SaveExec
    \/ SaveCommit
    \/ Export
    \/ RunDeferred
    \/ ProcessExit
    \/ Tick
    \/ MonitorLoad
    \/ MonitorSeek
    \/ MonitorPrint
    \/ MonitorReturn

SpecMon == InitMon /\ [][NextMon]_vars

----------------------------------------------------------------------------
(* Properties of the progress monitor *)

Started == monPc # "none"

Exited == pc = "exit"

\* C14: once the stop function has written its newline, the newline stays
\* the last thing written to stderr.
C14_CleanStop ==
    stopCalls > 0 => lastOut = "newline"

\* C15: the stop function is called at most once; a process that ends
\* after the monitor was started has called it once, and it is never called
\* when the monitor was not started.
C15_StopExactlyOnce ==
    /\ stopCalls <= 1
    /\ ~ Started => stopCalls = 0
    /\ Exited /\ Started => stopCalls = 1

\* The process has ended after a failed export, with the monitor stopped.
C15_Witness ==
    /\ Exited
    /\ status = "Error sorting and exporting database"
    /\ Started
    /\ stopCalls = 1
    /\ done

\* C17: when the export is about to run, the monitor has been stopped.
C17_StoppedBeforeExport ==
    pc = "export" => stopCalls = 1 /\ done /\ ~ tickerOn

GoroutineStep == Started /\ monPc' # monPc

ObserverStep ==
    /\ linesProcessed' = linesProcessed
    /\ offset' = offset
    /\ domainTimesMap' = domainTimesMap
    /\ store' = store
    /\ sample'.lines >= sample.lines
    /\ sample'.lines <= scanned

\* C19: a step of the goroutine leaves the counter, the file offset, the
\* map and the table as they were, the line count it samples never goes
\* down and never exceeds the number of lines scanned, and the counter is
\* always the number of lines scanned, as in a run without ticks.
C19_MonitorIsObserver ==
    /\ [](linesProcessed = scanned /\ sample.lines <= scanned)
    /\ [][GoroutineStep => ObserverStep]_vars

\* The goroutine has sampled after the first line and again after the
\* second, and the scan has ended with both lines counted.
C19_Witness ==
    /\ pc = "saveOpen"
    /\ scanned = 2
    /\ sample.lines = 2
    /\ sample.pos = ReadChunk
    /\ lastOut = "progress"
    /\ DOMAIN domainTimesMap # {}

----------------------------------------------------------------------------
(* Properties of the end of a run *)

Completed == "Process completed successfully."

\* C16: a run that failed at any stage has logged a message and ends with a
\* non-zero status; status 0 with the success message only ends a run whose
\* stages were all carried out.
C16_FailureExitsNonZero ==
    Exited =>
        /\ status # ""
        /\ status # Completed => exitCode # 0
        /\ status = Completed =>
              /\ exitCode = 0
              /\ \A s \in Stages : attempts[s] = 1
              /\ exported = store

\* C18: no stage is begun twice in a run; a stage is begun only after the
\* stage before it; after an open failure nothing else was begun; after an
\* init failure no line was scanned; after a scan failure the save was not
\* begun and the committed rows are those the run started with; after a
\* save failure the export was not begun.
C18_FailFast ==
    /\ \A s \in Stages : attempts[s] <= 1
    /\ attempts["init"] <= attempts["open"]
    /\ attempts["scan"] <= attempts["init"]
    /\ attempts["save"] <= attempts["scan"]
    /\ attempts["export"] <= attempts["save"]
    /\ status = "Error" =>
          /\ \A s \in Stages \ {"open"} : attempts[s] = 0
          /\ store = storeAtStart
    /\ status = "Error initializing database" =>
          /\ \A s \in {"scan", "save", "export"} : attempts[s] = 0
          /\ scanned = 0
          /\ linesProcessed = 0
    /\ status = "Error scanning" =>
          /\ \A s \in {"save", "export"} : attempts[s] = 0
          /\ store = storeAtStart
          /\ txRows = << >>
    /\ status = "Error saving domains to database" => attempts["export"] = 0

\* A second run whose scan failed after lines had matched, over a table
\* that holds rows of the first run.
C18_Witness ==
    /\ Exited
    /\ status = "Error scanning"
    /\ storeAtStart # << >>
    /\ scanned >= 1
    /\ DOMAIN domainTimesMap # {}
    /\ store = storeAtStart

----------------------------------------------------------------------------
(* The scan loop over lines with several markers *)

Dnsmasq == << "d", "n", "s", "m", "a", "s", "q", ":" >>

From == << "f", "r", "o", "m" >>

Client == << "1", "2", "7", ".", "0", ".", "0", ".", "1" >>

ExampleDomain ==
    << "w", "w", "w", ".", "E", "x", "a", "m", "p", "l", "e", ".", "c", "o", "m" >>

ExampleKey ==
    << "c", "o", "m", ".", "E", "x", "a", "m", "p", "l", "e", ".", "w", "w", "w" >>

MarkerSeqs ==
    { << QueryA, DomainAB, QueryA, DomainBA >>,
      << QueryA, QueryA, DomainAB >>,
      << Noise, DomainAB, QueryA >>,
      << Dnsmasq, QueryA, ExampleDomain, From, Client >> }

ParseLines ==
    Lines \cup
    { [len |-> StampWidth + TextLen(f), stamp |-> s, fields |-> f] :
        s \in Stamps \cup {BadStamp}, f \in MarkerSeqs }

InitParse ==
    /\ pc = "open"
    /\ input = ParseLines
    /\ tableExists = FALSE
    /\ text = EmptyString
    /\ other = EmptyString
    /\ InitLocals

NextParse ==
    \/ OpenInput
    \/ InitDatabase
    \/ ScanLine

SpecParse == InitParse /\ [][NextParse]_vars

----------------------------------------------------------------------------
(* reverseDomainParts over every short string *)

Letters == {"a", "b", Dot}

Texts == UNION { [1..n -> Letters] : n \in 0..MaxLen }

mainIdle == <<pc, status, runs, line, linesProcessed, domainTimesMap,
              tableExists, store, txRows, pending, exported, seen, zeroSeen,
              input, offset, scanned, defers, exitCode, attempts, storeAtStart>>

InitReverse ==
    /\ pc = "scan"
    /\ input = {}
    /\ tableExists = TRUE
    /\ text \in Texts
    /\ other \in Texts
    /\ InitLocals

\* Line 48 for two domains.
ReverseDomains ==
    /\ normalized = 0
    /\ flipped' = reverseDomainParts(text)
    /\ otherFlipped' = reverseDomainParts(other)
    /\ normalized' = 1
    /\ UNCHANGED <<text, other, back>>
    /\ UNCHANGED mainIdle
    /\ UNCHANGED monVars
    /\ UNCHANGED laneVars

\* reverseDomainParts (lines 180-186) given a key it has produced.
ReverseAgain ==
    /\ normalized = 1
    /\ back' = reverseDomainParts(flipped)
    /\ normalized' = 2
    /\ UNCHANGED <<text, other, flipped, otherFlipped>>
    /\ UNCHANGED mainIdle
    /\ UNCHANGED monVars
    /\ UNCHANGED laneVars

NextReverse ==
    \/ ReverseDomains
    \/ ReverseAgain

SpecReverse == InitReverse /\ [][NextReverse]_vars

----------------------------------------------------------------------------
(* Properties of the extractor and of the normalizer *)

MarkersOf(parts) ==
    { i \in 1..Len(parts) : HasPrefix(parts[i], QueryPrefix) /\ i < Len(parts) }

LabelsReversed(k, d) ==
    LET kl == Split(k, Dot)
        dl == Split(d, Dot)
    IN  /\ Len(kl) = Len(dl)
        /\ \A i \in 1..Len(dl) : kl[i] = dl[Len(dl) + 1 - i]

WellStamped(l) == l.len >= StampWidth /\ l.stamp.valid

ExtractStep ==
    LET parts == line'.fields
        found == extractDomainAndTimestamp(line')
        markers == MarkersOf(parts)
    IN  /\ (found.domain # EmptyString) <=> (markers # {})
        /\ markers = {} => domainTimesMap' = domainTimesMap
        /\ markers # {} =>
              LET d == parts[SetMin(markers) + 1]
              IN  /\ found.domain = d
                  /\ d # EmptyString
                  /\ \E k \in DOMAIN domainTimesMap' :
                        /\ LabelsReversed(k, d)
                        /\ DOMAIN domainTimesMap' = DOMAIN domainTimesMap \cup {k}
                        /\ d = ExampleDomain => k = ExampleKey

\* C11: for a line of at least 15 characters whose time field parses, the
\* extractor returns a match exactly when some token with prefix query[ is
\* followed by another token; the domain is the token after the first such
\* marker, unchanged and not empty, and the key the scan loop adds to the
\* map is that domain with its labels in reverse order.
C11_DomainExtraction ==
    [][ScanStep /\ WellStamped(line') => ExtractStep]_vars

\* The example line has been scanned after a line with two markers.
C11_Witness ==
    /\ pc = "scan"
    /\ scanned = 2
    /\ line.stamp.valid
    /\ line.fields = << Dnsmasq, QueryA, ExampleDomain, From, Client >>
    /\ DOMAIN domainTimesMap = {ExampleKey, DomainBA}

\* The year the program runs in.
ClockYear == 2026

InYearStep ==
    LET found == extractDomainAndTimestamp(line')
    IN  found.domain # EmptyString =>
            /\ found.timestamp =
                  Unix([err |-> FALSE, year |-> ClockYear,
                        minute |-> line'.stamp.minute])
            /\ found.timestamp > 0

\* C12: the timestamp returned for a matching line is the time of the
\* line's time field in the year the program runs in, and is positive.
C12_TimestampInCurrentYear ==
    [][ScanStep => InYearStep]_vars

\* C13: reversing the labels twice gives the string back, for every string;
\* the empty string reverses to itself; two different strings never reverse
\* to the same key.
C13_ReverseIsInvolution ==
    /\ normalized = 2 => back = text
    /\ normalized >= 1 =>
          /\ text = EmptyString => flipped = EmptyString
          /\ flipped = otherFlipped => text = other

\* Both reversals made of a string with a leading dot and two trailing
\* dots, next to a different string with the same labels in another order.
C13_Witness ==
    /\ normalized = 2
    /\ text = << Dot, "a", Dot, Dot >>
    /\ other = << Dot, Dot, "a", Dot >>
    /\ flipped # text

====
